---- MODULE Spec2Model ----
(***************************************************************************)
(* Model of the compliance engine of the poster generator                  *)
(* (backend/utils/compliance_checker.py): the deterministic local scan     *)
(* (_simple_local_check), the orchestration of check_html, the call to the *)
(* reasoning backend and the extraction of a verdict from its output.      *)
(*                                                                         *)
(* Text is modelled character by character: a Python str is a TLA+ string, *)
(* indexed with SubSeq.  A Python value (None, bool, str, number, list,    *)
(* dict) is a tagged record, see PyNone .. PyDict.                         *)
(***************************************************************************)
EXTENDS Integers, Sequences, FiniteSets, TLC

VARIABLES
    html,          \* the markup handed to check_html, as the tree html.parser builds
    parsed,        \* "unknown" before the scan; then whether BeautifulSoup(...) returned
    hashSeed,      \* the process's string hash seed: it fixes the iteration order of sets
    model,         \* self.gemini.model: NoModel or the name of the configured model
    backend,       \* what the reasoning backend does when it is called
    pc,            \* position of the check_html invocation
    local,         \* the variable named local of check_html
    prompt,        \* the prompt built for the backend (its variable parts)
    text,          \* response.text.strip() of the backend call
    cause,         \* str(e) of the exception caught at line 282
    backendCalls,  \* number of model.generate_content calls made
    scans,         \* number of _simple_local_check calls made
    result,        \* the value check_html returned
    exc,           \* the exception that escaped check_html, "" if none
    calls,         \* number of check_html invocations started in this process
    first,         \* how the first invocation ended: its result and its exception
    store,         \* the committed rows of the table color_palettes, in rowid order
    dbLock,        \* the request whose connection holds the write transaction, or "none"
    dbPending,     \* the rows as the open write transaction left them
    earlier,      \* the rows of the palette table when the server started
    saves,         \* the POST /api/palettes/save requests
    fq,            \* the GET /api/palettes/frequent request
    an,            \* the POST /api/analyze-image request
    gen            \* the POST /api/generate-layout request

\* the state of one check_html invocation, apart from the service's model
checkVars == <<html, parsed, backend, pc, local, prompt, text, cause,
               backendCalls, scans, result, exc, calls, first>>

\* the state of the Flask application: the palette table and the requests
appVars == <<store, dbLock, dbPending, earlier, saves, fq, an, gen>>

vars == <<hashSeed, model, checkVars, appVars>>

----------------------------------------------------------------------------
(* Python str helpers *)

Char(s, i) == IF i >= 1 /\ i <= Len(s) THEN SubSeq(s, i, i) ELSE ""

Digits == {"0", "1", "2", "3", "4", "5", "6", "7", "8", "9"}

UpperAlpha == "ABCDEFGHIJKLMNOPQRSTUVWXYZ"

LowerAlpha == "abcdefghijklmnopqrstuvwxyz"

Letters == {Char(UpperAlpha, k) : k \in 1..Len(UpperAlpha)}
               \cup {Char(LowerAlpha, k) : k \in 1..Len(LowerAlpha)}

\* \d of the re module (ASCII digits of the modelled texts)
IsDigit(c) == c \in Digits

\* \s of the re module and the characters str.strip() removes
IsSpace(c) == c \in {" ", "\n", "\t", "\r"}

\* \w of the re module: what \b tells apart from the rest
IsWordChar(c) == c \in Digits \cup Letters \cup {"_"}

\* \b between position i-1 and position i of s
WordBoundaryAt(s, i) == IsWordChar(Char(s, i - 1)) # IsWordChar(Char(s, i))

\* The lower-case letter of each upper-case letter
LowerOf ==
    [c \in {Char(UpperAlpha, k) : k \in 1..Len(UpperAlpha)} |->
        Char(LowerAlpha, CHOOSE k \in 1..Len(UpperAlpha) : Char(UpperAlpha, k) = c)]

LowerChar(c) == IF c \in DOMAIN LowerOf THEN LowerOf[c] ELSE c

RECURSIVE LowerFrom(_, _)
LowerFrom(s, i) == IF i > Len(s) THEN "" ELSE LowerChar(Char(s, i)) \o LowerFrom(s, i + 1)

\* str.lower()
Lower(s) == LowerFrom(s, 1)

RECURSIVE FirstNonSpace(_, _)
FirstNonSpace(s, i) ==
    IF i > Len(s) THEN i ELSE IF IsSpace(Char(s, i)) THEN FirstNonSpace(s, i + 1) ELSE i

RECURSIVE LastNonSpace(_, _)
LastNonSpace(s, i) ==
    IF i < 1 THEN i ELSE IF IsSpace(Char(s, i)) THEN LastNonSpace(s, i - 1) ELSE i

\* str.strip()
Strip(s) ==
    LET a == FirstNonSpace(s, 1)
        b == LastNonSpace(s, Len(s))
    IN IF a > b THEN "" ELSE SubSeq(s, a, b)

\* s[i:i+len(lit)] == lit
StartsWithAt(s, i, lit) ==
    /\ i >= 1
    /\ i + Len(lit) - 1 <= Len(s)
    /\ SubSeq(s, i, i + Len(lit) - 1) = lit

\* kw in s
Contains(s, kw) == \E i \in 1..(Len(s) - Len(kw) + 1) : StartsWithAt(s, i, kw)

\* s[:n]
Prefix(s, n) == IF Len(s) <= n THEN s ELSE SubSeq(s, 1, n)

RECURSIVE JoinFrom(_, _, _)
JoinFrom(parts, sep, i) ==
    IF i > Len(parts) THEN ""
    ELSE IF i = Len(parts) THEN parts[i]
    ELSE parts[i] \o sep \o JoinFrom(parts, sep, i + 1)

\* sep.join(parts)
Join(parts, sep) == JoinFrom(parts, sep, 1)

----------------------------------------------------------------------------
(* Python values *)

PyNone == [t |-> "none", b |-> FALSE, s |-> "", items |-> <<>>]

PyBool(v) == [t |-> "bool", b |-> v, s |-> "", items |-> <<>>]

PyStr(v) == [t |-> "str", b |-> FALSE, s |-> v, items |-> <<>>]

PyNum(v) == [t |-> "num", b |-> FALSE, s |-> v, items |-> <<>>]

\* a list: elems is a sequence of Python values
PyList(elems) ==
    [t |-> "list", b |-> FALSE, s |-> "",
     items |-> [k \in 1..Len(elems) |-> [k |-> "", v |-> elems[k]]]]

\* a dict: pairs is a sequence of <<key, value>>, in insertion order
PyDict(pairs) ==
    [t |-> "dict", b |-> FALSE, s |-> "",
     items |-> [k \in 1..Len(pairs) |-> [k |-> pairs[k][1], v |-> pairs[k][2]]]]

HasKey(d, key) == d.t = "dict" /\ \E k \in 1..Len(d.items) : d.items[k].k = key

\* d[key] of a dict that has the key (the last pair written wins)
Get(d, key) ==
    LET ks == {k \in 1..Len(d.items) : d.items[k].k = key}
    IN d.items[CHOOSE k \in ks : \A j \in ks : j <= k].v

\* bool(v)
Truthy(v) ==
    CASE v.t = "none" -> FALSE
      [] v.t = "bool" -> v.b
      [] v.t = "str" -> v.s # ""
      [] v.t = "num" -> v.s \notin {"0", "-0", "0.0"}
      [] OTHER -> Len(v.items) > 0

\* v['passed'] is False
PassedIsFalse(v) ==
    /\ HasKey(v, "passed")
    /\ Get(v, "passed").t = "bool"
    /\ Get(v, "passed").b = FALSE

\* v['passed'] is True
PassedIsTrue(v) ==
    /\ HasKey(v, "passed")
    /\ Get(v, "passed").t = "bool"
    /\ Get(v, "passed").b = TRUE

\* the reason of a verdict, "" when it has none that is a str
ReasonOf(v) ==
    IF HasKey(v, "reason") /\ Get(v, "reason").t = "str" THEN Get(v, "reason").s ELSE ""

----------------------------------------------------------------------------
(* The parsed document: what soup.find_all(string=True) walks *)

\* An element: tag name, class tokens in order, id ("" when it has none)
Element(name, class, id) == [name |-> name, class |-> class, id |-> id]

\* A text node: its text and its ancestors from the parent up to, and
\* excluding, the BeautifulSoup object named "[document]"
TextNode(txt, anc) == [text |-> txt, anc |-> anc]

DocumentName == "[document]"

\* t.parent.name
ParentName(node) == IF Len(node.anc) = 0 THEN DocumentName ELSE node.anc[1].name

\* The literals of the two keyword sets, in the order the source writes them
PriceKeywordsAsWritten == <<"discount", "save", "% off", "was £", "now £">>

CopyKeywordsAsWritten ==
    <<"t&c", "t&cs", "terms and conditions", "win", "prize", "competition",
      "guarantee", "money-back", "money back", "sustainab", "green", "charity",
      "best", "#1", "guaranteed", "free trial", "money back guarantee">>

PRICE_KEYWORDS == {PriceKeywordsAsWritten[k] : k \in 1..Len(PriceKeywordsAsWritten)}

COPY_HARD_FAIL_KEYWORDS == {CopyKeywordsAsWritten[k] : k \in 1..Len(CopyKeywordsAsWritten)}

\* A Python set of str iterates in an order the hash seed of the process
\* decides: the order is fixed within a process and differs between
\* processes.  Two seeds are modelled, giving the written order and its reverse.
HashSeeds == {"seedA", "seedB"}

Reverse(seq) == [k \in 1..Len(seq) |-> seq[Len(seq) + 1 - k]]

SetIterationOrder(seed, written) == IF seed = "seedA" THEN written ELSE Reverse(written)

ALLOWED_VALUE_TILE_CLASSES ==
    {"value-tile", "clubcard-side", "clubcard-left", "clubcard-right", "offer-side",
     "value-price", "clubcard", "price-tile", "white-tile"}

AllowedIdSubstrings == {"value-tile", "clubcard", "price", "offer"}

\* One iteration of the while loop of is_within_allowed_tile: does parent match
ParentIsAllowedTile(parent) ==
    \/ \E k \in 1..Len(parent.class) : parent.class[k] \in ALLOWED_VALUE_TILE_CLASSES
    \/ parent.id # "" /\ \E sub \in AllowedIdSubstrings : Contains(parent.id, sub)

\* The while loop of is_within_allowed_tile from the i-th ancestor on:
\* <<answer, iterations made>>
RECURSIVE AllowedTileWalk(_, _)
AllowedTileWalk(anc, i) ==
    IF i > Len(anc) THEN <<FALSE, 0>>
    ELSE IF ParentIsAllowedTile(anc[i]) THEN <<TRUE, 1>>
    ELSE LET rest == AllowedTileWalk(anc, i + 1) IN <<rest[1], rest[2] + 1>>

\* A faulty variant of is_within_allowed_tile: it looks at the parent and no
\* further
is_within_parent_only(node) == Len(node.anc) > 0 /\ ParentIsAllowedTile(node.anc[1])

is_within_allowed_tile(node) == AllowedTileWalk(node.anc, 1)[1]

----------------------------------------------------------------------------
(* price_regex, as the adjacent string literals of lines 53-57 concatenate:   *)
(*   (?:£|\$|€|₹)\s?\d{1,3}(?:[,\d{3}])*(?:\.\d{1,2})?                         *)
(* | \d{1,3}(?:[,\d{3}])*(?:\.\d{1,2})?\s?(?:GBP|USD|EUR|INR)\b               *)
(* | \d{1,3}\s*%\b(?:was|now|save|off)\s+\d{1,3}\b(?:discount|% off|off)\b    *)
(* with re.IGNORECASE.  Each *End operator gives the index of the last        *)
(* character of the match that starts at i, 0 when there is none.             *)

CurrencySymbols == {"£", "$", "€", "₹"}

CurrencyCodes == {"gbp", "usd", "eur", "inr"}

\* The character class [,\d{3}]
InThousandsClass(c) == c \in Digits \cup {",", "{", "}"}

\* number of digits from position i on, at most max
RECURSIVE DigitRun(_, _, _)
DigitRun(s, i, max) ==
    IF max = 0 \/ ~IsDigit(Char(s, i)) THEN 0 ELSE 1 + DigitRun(s, i + 1, max - 1)

RECURSIVE ClassRun(_, _)
ClassRun(s, i) == IF InThousandsClass(Char(s, i)) THEN 1 + ClassRun(s, i + 1) ELSE 0

RECURSIVE SpaceRun(_, _)
SpaceRun(s, i) == IF IsSpace(Char(s, i)) THEN 1 + SpaceRun(s, i + 1) ELSE 0

\* (?:\.\d{1,2})? at position i, greedy: the position after it
AfterDecimals(s, i) ==
    IF Char(s, i) = "." /\ IsDigit(Char(s, i + 1)) THEN i + 1 + DigitRun(s, i + 1, 2) ELSE i

\* First alternative: every part after the first digit is optional, so the
\* greedy match never backtracks
SymbolPriceEnd(s, i) ==
    IF Char(s, i) \notin CurrencySymbols THEN 0
    ELSE LET d == IF IsDigit(Char(s, i + 1)) THEN i + 1
                  ELSE IF IsSpace(Char(s, i + 1)) /\ IsDigit(Char(s, i + 2)) THEN i + 2
                  ELSE 0
         IN IF d = 0 THEN 0
            ELSE LET p1 == d + DigitRun(s, d, 3)
                     p2 == p1 + ClassRun(s, p1)
                 IN AfterDecimals(s, p2) - 1

\* The positions (?:\.\d{1,2})? can stop at, from position i
DecimalStops(s, i) ==
    {i} \cup {i + 1 + m : m \in {k \in 1..2 : Char(s, i) = "." /\ DigitRun(s, i + 1, k) = k}}

\* \s?(?:GBP|USD|EUR|INR)\b at position i: the index of the code's last letter
CodeEndsAt(s, i) ==
    {p + 2 : p \in {q \in {i} \cup {r \in {i + 1} : IsSpace(Char(s, i))} :
                        /\ q + 2 <= Len(s)
                        /\ Lower(SubSeq(s, q, q + 2)) \in CurrencyCodes
                        /\ WordBoundaryAt(s, q + 3)}}

\* Second alternative: the ends of all the ways to match from i (the match
\* stops at the currency code, so they all end at the same place)
CodePriceEnds(s, i) ==
    UNION {UNION {UNION {CodeEndsAt(s, p) : p \in DecimalStops(s, i + n1 + n2)} :
                     n2 \in 0..ClassRun(s, i + n1)} :
              n1 \in 1..DigitRun(s, i, 3)}

\* The largest and the smallest member of a set of positions, 0 for none
MaxOf(S) == IF S = {} THEN 0 ELSE CHOOSE e \in S : \A f \in S : f <= e

MinOf(S) == IF S = {} THEN 0 ELSE CHOOSE e \in S : \A f \in S : e <= f

CodePriceEnd(s, i) == MaxOf(CodePriceEnds(s, i))

PercentWords == {"was", "now", "save", "off"}

\* (?:discount|% off|off), in the order the alternation tries them
PercentTails == <<"discount", "% off", "off">>

\* s[i:] starts with lit, letters compared case-insensitively
StartsWithIgnoreCase(s, i, lit) ==
    /\ i >= 1
    /\ i + Len(lit) - 1 <= Len(s)
    /\ Lower(SubSeq(s, i, i + Len(lit) - 1)) = lit

\* Third alternative: lines 55-57 carry no | between them, so the bare
\* percentage, the was/now/save/off phrase and the discount word are one
\* sequence.  Each quantified part is followed by something it cannot itself
\* match, so it takes its whole run or the match fails.  The operators below
\* follow the sequence from its end to its start.

\* the alternative of (?:discount|% off|off) that matched at pTail: the index
\* of its last character
PercentTailEnd(pTail, tails) ==
    IF tails = {} THEN 0 ELSE pTail - 1 + Len(PercentTails[MinOf(tails)])

\* \b(?:discount|% off|off)\b at pTail
PercentTailAt(s, pTail) ==
    IF ~WordBoundaryAt(s, pTail) THEN 0
    ELSE PercentTailEnd(pTail, {k \in 1..Len(PercentTails) :
                                   /\ StartsWithIgnoreCase(s, pTail, PercentTails[k])
                                   /\ WordBoundaryAt(s, pTail + Len(PercentTails[k]))})

\* \d{1,3} at pNum, then the tail
PercentDigitsAt(s, pNum) ==
    IF DigitRun(s, pNum, 3) = 0 THEN 0 ELSE PercentTailAt(s, pNum + DigitRun(s, pNum, 3))

\* \s+ at pSp, then the number
PercentNumberAt(s, pSp) ==
    IF SpaceRun(s, pSp) = 0 THEN 0 ELSE PercentDigitsAt(s, pSp + SpaceRun(s, pSp))

\* (?:was|now|save|off) at pWord (words: those s has there), then the rest
PercentWordAt(s, pWord, words) ==
    IF words = {} THEN 0 ELSE PercentNumberAt(s, pWord + Len(CHOOSE w \in words : TRUE))

\* %\b at pPct, then the word
PercentSignAt(s, pPct) ==
    IF Char(s, pPct) # "%" \/ ~WordBoundaryAt(s, pPct + 1) THEN 0
    ELSE PercentWordAt(s, pPct + 1,
                       {w \in PercentWords : StartsWithIgnoreCase(s, pPct + 1, w)})

\* \d{1,3}\s* at i, then the sign
PercentPhraseEnd(s, i) ==
    IF DigitRun(s, i, 3) = 0 THEN 0
    ELSE PercentSignAt(s, i + DigitRun(s, i, 3) + SpaceRun(s, i + DigitRun(s, i, 3)))

\* a if the alternative a matched (a # 0), else the next alternative's answer
OrElse(a, b) == IF a # 0 THEN a ELSE b

\* The alternatives in the order the pattern tries them at position i
PriceMatchEndAt(s, i) ==
    OrElse(SymbolPriceEnd(s, i), OrElse(CodePriceEnd(s, i), PercentPhraseEnd(s, i)))

\* <<start, end>> of the match that starts at i, <<0, 0>> when i = 0
MatchSpan(s, i) == IF i = 0 THEN <<0, 0>> ELSE <<i, PriceMatchEndAt(s, i)>>

\* price_regex.search(s): <<start, end>> of the leftmost match, <<0, 0>> for None
price_regex_search(s) ==
    MatchSpan(s, MinOf({i \in 1..Len(s) : PriceMatchEndAt(s, i) # 0}))

----------------------------------------------------------------------------
(* _simple_local_check *)

\* the slice length of txt[:80]
SnippetLen == 80

\* The first keyword of order that txt contains: its index, 0 when none
RECURSIVE FirstKeywordIn(_, _, _)
FirstKeywordIn(order, txt, k) ==
    IF k > Len(order) THEN 0
    ELSE IF Contains(txt, order[k]) THEN k
    ELSE FirstKeywordIn(order, txt, k + 1)

\* re.sub(r"<[^>]+>", " ", html_content): every tag becomes one space
RECURSIVE Spaces(_)
Spaces(n) == IF n = 0 THEN "" ELSE " " \o Spaces(n - 1)

RECURSIVE FlatTextFrom(_, _)
FlatTextFrom(doc, i) ==
    IF i > Len(doc) THEN ""
    ELSE Spaces(Len(doc[i].anc)) \o doc[i].text \o Spaces(Len(doc[i].anc))
             \o FlatTextFrom(doc, i + 1)

\* A faulty variant of DegradedCheck: it reports a pass when no keyword is found
DegradedCheckPasses(doc, seed) ==
    IF \E kw \in COPY_HARD_FAIL_KEYWORDS \cup PRICE_KEYWORDS : Contains(Lower(FlatTextFrom(doc, 1)), kw)
    THEN PyDict(<< <<"passed", PyBool(FALSE)>>, <<"reason", PyStr("keyword detected")>> >>)
    ELSE PyDict(<< <<"passed", PyBool(TRUE)>>, <<"reason", PyStr("OK (fast-checks)")>>,
                   <<"details", PyList(<<>>)>> >>)

\* Lines 38-47: the scan when BeautifulSoup raised
DegradedCheck(doc, seed) ==
    LET low == Lower(FlatTextFrom(doc, 1))
        copyOrder == SetIterationOrder(seed, CopyKeywordsAsWritten)
        priceOrder == SetIterationOrder(seed, PriceKeywordsAsWritten)
        c == FirstKeywordIn(copyOrder, low, 1)
        p == FirstKeywordIn(priceOrder, low, 1)
    IN IF c # 0
       THEN PyDict(<< <<"passed", PyBool(FALSE)>>,
                      <<"reason", PyStr("Disallowed copy keyword detected in HTML: '"
                                            \o copyOrder[c] \o "'")>> >>)
       ELSE IF p # 0
       THEN PyDict(<< <<"passed", PyBool(FALSE)>>,
                      <<"reason", PyStr("Price/discount copy detected in HTML: '"
                                            \o priceOrder[p] \o "'")>> >>)
       ELSE PyNone

\* Lines 94-98 and 109-112: the text nodes neither loop skips
IsScanned(node) == Strip(node.text) # "" /\ ParentName(node) \notin {"script", "style"}

\* A faulty variant of OutsideTexts: it keeps the text inside allowed tiles too
RECURSIVE AllScannedTexts(_, _)
AllScannedTexts(doc, i) ==
    IF i > Len(doc) THEN <<>>
    ELSE IF IsScanned(doc[i])
    THEN <<Strip(doc[i].text)>> \o AllScannedTexts(doc, i + 1)
    ELSE AllScannedTexts(doc, i + 1)

\* Lines 92-100: the stripped texts of page_text_outside_tiles, in document order
RECURSIVE OutsideTexts(_, _)
OutsideTexts(doc, i) ==
    IF i > Len(doc) THEN <<>>
    ELSE IF IsScanned(doc[i]) /\ ~is_within_allowed_tile(doc[i])
    THEN <<Strip(doc[i].text)>> \o OutsideTexts(doc, i + 1)
    ELSE OutsideTexts(doc, i + 1)

\* Line 102
outside_text(doc) == Lower(Join(OutsideTexts(doc, 1), " "))

\* Lines 118-126
RECURSIVE DotJoin(_, _)
DotJoin(cls, i) == IF i > Len(cls) THEN "" ELSE "." \o cls[i] \o DotJoin(cls, i + 1)

selector_hint(node) ==
    IF Len(node.anc) = 0 THEN DocumentName
    ELSE node.anc[1].name \o DotJoin(node.anc[1].class, 1)
             \o (IF node.anc[1].id # "" THEN "#" \o node.anc[1].id ELSE "")

\* Lines 127-134
PriceFailVerdict(node, m) ==
    LET txt == Strip(node.text)
    IN PyDict(<< <<"passed", PyBool(FALSE)>>,
                 <<"reason", PyStr("Price/discount copy detected outside allowed value-tile")>>,
                 <<"details", PyList(<<
                     PyDict(<< <<"rule", PyStr("Price text")>>,
                               <<"result", PyStr("fail")>>,
                               <<"explain", PyStr("Found price-like token '"
                                    \o SubSeq(txt, m[1], m[2]) \o "' in element <"
                                    \o selector_hint(node) \o "> with text '"
                                    \o Prefix(txt, SnippetLen) \o "'")>> >>) >>)>> >>)

\* Lines 137-138
PricePassDetail(node) ==
    PyDict(<< <<"rule", PyStr("Price text")>>,
              <<"result", PyStr("pass")>>,
              <<"explain", PyStr("Found price inside allowed tile: '"
                   \o Prefix(Strip(node.text), SnippetLen) \o "'")>> >>)

\* A faulty variant of PriceLoop: it returns at the first price it finds, also
\* when that price is inside an allowed tile
RECURSIVE PriceLoopStopsAtFirstPrice(_, _, _)
PriceLoopStopsAtFirstPrice(doc, i, details) ==
    IF i > Len(doc) THEN PyNone
    ELSE LET m == price_regex_search(Strip(doc[i].text))
         IN IF ~IsScanned(doc[i]) \/ m[1] = 0 THEN PriceLoopStopsAtFirstPrice(doc, i + 1, details)
            ELSE IF ~is_within_allowed_tile(doc[i]) THEN PriceFailVerdict(doc[i], m)
            ELSE PyDict(<< <<"passed", PyBool(TRUE)>>,
                           <<"reason", PyStr("OK (fast-checks)")>>,
                           <<"details", PyList(<<PricePassDetail(doc[i])>>)>> >>)

\* A faulty variant of PriceLoop: it returns a passing verdict also when no
\* detail was recorded
RECURSIVE PriceLoopPassesWithoutDetails(_, _, _)
PriceLoopPassesWithoutDetails(doc, i, details) ==
    IF i > Len(doc)
    THEN PyDict(<< <<"passed", PyBool(TRUE)>>,
                   <<"reason", PyStr("OK (fast-checks)")>>,
                   <<"details", PyList(details)>> >>)
    ELSE LET m == price_regex_search(Strip(doc[i].text))
         IN IF ~IsScanned(doc[i]) \/ m[1] = 0 THEN PriceLoopPassesWithoutDetails(doc, i + 1, details)
            ELSE IF ~is_within_allowed_tile(doc[i]) THEN PriceFailVerdict(doc[i], m)
            ELSE PriceLoopPassesWithoutDetails(doc, i + 1, Append(details, PricePassDetail(doc[i])))

\* Lines 108-143: the price loop from the i-th text node on, and the return
\* after it
RECURSIVE PriceLoop(_, _, _)
PriceLoop(doc, i, details) ==
    IF i > Len(doc)
    THEN IF Len(details) > 0
         THEN PyDict(<< <<"passed", PyBool(TRUE)>>,
                        <<"reason", PyStr("OK (fast-checks)")>>,
                        <<"details", PyList(details)>> >>)
         ELSE PyNone
    ELSE LET m == price_regex_search(Strip(doc[i].text))
         IN IF ~IsScanned(doc[i]) \/ m[1] = 0 THEN PriceLoop(doc, i + 1, details)
            ELSE IF ~is_within_allowed_tile(doc[i]) THEN PriceFailVerdict(doc[i], m)
            ELSE PriceLoop(doc, i + 1, Append(details, PricePassDetail(doc[i])))

\* Lines 102-105: the banned-phrase check, then the price loop
ParsedCheck(doc, seed) ==
    LET order == SetIterationOrder(seed, CopyKeywordsAsWritten)
        c == FirstKeywordIn(order, outside_text(doc), 1)
    IN IF c # 0
       THEN PyDict(<< <<"passed", PyBool(FALSE)>>,
                      <<"reason", PyStr("Disallowed copy keyword detected outside value-tile: '"
                                            \o order[c] \o "'")>> >>)
       ELSE PriceLoop(doc, 1, <<>>)

\* _simple_local_check(html_content, objects, assets); parseOk tells whether
\* BeautifulSoup(html_content, "html.parser") returned
simple_local_check(doc, parseOk, seed) ==
    IF parseOk THEN ParsedCheck(doc, seed) ELSE DegradedCheck(doc, seed)

----------------------------------------------------------------------------
(* json.loads, on the JSON the modelled responses use: objects, arrays,     *)
(* strings with the escapes \" \\ \/ \n \t, numbers without exponent, true, *)
(* false, null.  A parse gives [ok, next, val]: next is the position after  *)
(* the value.                                                               *)

JsonFail == [ok |-> FALSE, next |-> 0, val |-> PyNone]

JsonOk(next, val) == [ok |-> TRUE, next |-> next, val |-> val]

Quote == "\""

Backslash == "\\"

SkipWs(s, i) == i + SpaceRun(s, i)

\* The index of the quote that closes the string whose content starts at i,
\* 0 when the string is not terminated or holds a control character
RECURSIVE StringEnd(_, _)
StringEnd(s, i) ==
    IF i > Len(s) THEN 0
    ELSE IF Char(s, i) = Quote THEN i
    ELSE IF Char(s, i) = Backslash
    THEN IF Char(s, i + 1) \in {Quote, Backslash, "/", "n", "t"} THEN StringEnd(s, i + 2) ELSE 0
    ELSE IF Char(s, i) \in {"\n", "\t", "\r"} THEN 0
    ELSE StringEnd(s, i + 1)

\* The decoded content of s[i..j]
RECURSIVE Unescape(_, _, _)
Unescape(s, i, j) ==
    IF i > j THEN ""
    ELSE IF Char(s, i) = Backslash
    THEN (CASE Char(s, i + 1) = "n" -> "\n"
            [] Char(s, i + 1) = "t" -> "\t"
            [] OTHER -> Char(s, i + 1)) \o Unescape(s, i + 2, j)
    ELSE Char(s, i) \o Unescape(s, i + 1, j)

\* A string that starts (with its quote) at i
ParseString(s, i) ==
    LET e == StringEnd(s, i + 1)
    IN IF Char(s, i) # Quote \/ e = 0 THEN JsonFail
       ELSE JsonOk(e + 1, PyStr(Unescape(s, i + 1, e - 1)))

\* -?(0|[1-9]\d*)(\.\d+)? at i: the position after it, 0 when there is none
NumberEnd(s, i) ==
    LET a == IF Char(s, i) = "-" THEN i + 1 ELSE i
        n == IF Char(s, a) = "0" THEN 1 ELSE DigitRun(s, a, Len(s))
        b == a + n
    IN IF n = 0 THEN 0
       ELSE IF Char(s, b) = "." /\ IsDigit(Char(s, b + 1))
       THEN b + 1 + DigitRun(s, b + 1, Len(s))
       ELSE b

RECURSIVE ParseValue(_, _)
RECURSIVE ParseMembers(_, _, _)
RECURSIVE ParseElements(_, _, _)

\* After a member's value, at position after: the end of the object or the
\* next member; all are the pairs read so far
MembersNext(s, after, all) ==
    IF Char(s, after) = "}" THEN JsonOk(after + 1, PyDict(all))
    ELSE IF Char(s, after) = "," THEN ParseMembers(s, SkipWs(s, after + 1), all)
    ELSE JsonFail

\* The member name with the parse val of its value
MemberEnd(s, pairs, name, val) ==
    IF ~val.ok THEN JsonFail
    ELSE MembersNext(s, SkipWs(s, val.next), Append(pairs, <<name, val.val>>))

\* The colon and the value after the parse key of a member's name
MemberValue(s, pairs, key) ==
    IF ~key.ok \/ Char(s, SkipWs(s, key.next)) # ":" THEN JsonFail
    ELSE MemberEnd(s, pairs, key.val.s, ParseValue(s, SkipWs(s, SkipWs(s, key.next) + 1)))

\* The members of an object from the key at i on; pairs are those read so far
ParseMembers(s, i, pairs) == MemberValue(s, pairs, ParseString(s, i))

\* After an element, at position after: the end of the array or the next element
ElementsNext(s, after, all) ==
    IF Char(s, after) = "]" THEN JsonOk(after + 1, PyList(all))
    ELSE IF Char(s, after) = "," THEN ParseElements(s, SkipWs(s, after + 1), all)
    ELSE JsonFail

ElementEnd(s, elems, val) ==
    IF ~val.ok THEN JsonFail
    ELSE ElementsNext(s, SkipWs(s, val.next), Append(elems, val.val))

\* The elements of an array from the value at i on
ParseElements(s, i, elems) == ElementEnd(s, elems, ParseValue(s, i))

\* The number s[i..e-1], e = 0 when no number starts at i
NumberValue(s, i, e) == IF e # 0 THEN JsonOk(e, PyNum(SubSeq(s, i, e - 1))) ELSE JsonFail

\* A value that starts at i
ParseValue(s, i) ==
    LET c == Char(s, i)
    IN IF c = Quote THEN ParseString(s, i)
       ELSE IF c = "{"
       THEN IF Char(s, SkipWs(s, i + 1)) = "}"
            THEN JsonOk(SkipWs(s, i + 1) + 1, PyDict(<<>>))
            ELSE ParseMembers(s, SkipWs(s, i + 1), <<>>)
       ELSE IF c = "["
       THEN IF Char(s, SkipWs(s, i + 1)) = "]"
            THEN JsonOk(SkipWs(s, i + 1) + 1, PyList(<<>>))
            ELSE ParseElements(s, SkipWs(s, i + 1), <<>>)
       ELSE IF StartsWithAt(s, i, "true") THEN JsonOk(i + 4, PyBool(TRUE))
       ELSE IF StartsWithAt(s, i, "false") THEN JsonOk(i + 5, PyBool(FALSE))
       ELSE IF StartsWithAt(s, i, "null") THEN JsonOk(i + 4, PyNone)
       ELSE NumberValue(s, i, NumberEnd(s, i))

\* The parse r of the first value of s, if only white space follows it
WholeValue(s, r) == IF r.ok /\ SkipWs(s, r.next) = Len(s) + 1 THEN r ELSE JsonFail

\* json.loads(s): ok is FALSE where json.loads raises
json_loads(s) == WholeValue(s, ParseValue(s, SkipWs(s, 1)))

----------------------------------------------------------------------------
(* Lines 253-281: the extraction of a verdict from the response text *)

\* A TLA+ string cannot hold the grave accent: "^" stands for it in the
\* modelled response texts
FenceOpen == "^^^json"

FenceClose == "^^^"

\* The ends e of group 1 for a match of the fence pattern that starts at p:
\* "{" after the opening fence and white space, "}" at e, then white space
\* and the closing fence
FenceGroupEnds(s, p) ==
    LET q == SkipWs(s, p + Len(FenceOpen))
    IN IF StartsWithAt(s, p, FenceOpen) /\ Char(s, q) = "{"
       THEN {e \in (q + 1)..Len(s) :
                Char(s, e) = "}" /\ StartsWithAt(s, SkipWs(s, e + 1), FenceClose)}
       ELSE {}

\* A faulty variant of FenceGroup: group 1 ends at the first closing fence
\* (a lazy .*?), not at the last
FenceGroupLazy(s) ==
    LET starts == {p \in 1..Len(s) : FenceGroupEnds(s, p) # {}}
    IN IF starts = {} THEN ""
       ELSE LET p == CHOOSE a \in starts : \A b \in starts : a <= b
                q == SkipWs(s, p + Len(FenceOpen))
                e == CHOOSE a \in FenceGroupEnds(s, p) : \A b \in FenceGroupEnds(s, p) : a <= b
            IN SubSeq(s, q, e)

\* re.search of line 257 (opening fence, \s*, group 1 = "{" .* "}", \s*,
\* closing fence; re.S): m.group(1), or "" when m is None.  The leftmost start wins and .* is greedy.
FenceGroup(s) ==
    LET starts == {p \in 1..Len(s) : FenceGroupEnds(s, p) # {}}
    IN IF starts = {} THEN ""
       ELSE LET p == CHOOSE a \in starts : \A b \in starts : a <= b
                q == SkipWs(s, p + Len(FenceOpen))
                e == CHOOSE a \in FenceGroupEnds(s, p) : \A b \in FenceGroupEnds(s, p) : b <= a
            IN SubSeq(s, q, e)

\* a if the attempt a gave a value, else the next attempt's answer
FirstOk(a, b) == IF a.ok THEN a ELSE b

\* Lines 264-279: the scan with the brace stack, from position i on, with
\* depth braces on the stack and start as set so far (0 for None)
RECURSIVE BraceScan(_, _, _, _)
BraceScan(s, i, depth, start) ==
    IF i > Len(s) THEN JsonFail
    ELSE IF Char(s, i) = "{"
    THEN BraceScan(s, i + 1, depth + 1, IF depth = 0 THEN i ELSE start)
    ELSE IF Char(s, i) = "}" /\ depth > 0
    THEN IF depth = 1 /\ start # 0
         THEN FirstOk(json_loads(SubSeq(s, start, i)), BraceScan(s, i + 1, depth - 1, start))
         ELSE BraceScan(s, i + 1, depth - 1, start)
    ELSE BraceScan(s, i + 1, depth, start)

\* Line 281
UnparsableVerdict(raw) ==
    PyDict(<< <<"passed", PyBool(FALSE)>>,
              <<"reason", PyStr("Gemini returned unparsable response")>>,
              <<"raw", PyStr(raw)>> >>)

\* Which of the steps gave the value: "whole", "fence", "braces" or "none"
ExtractionStep(txt) ==
    IF json_loads(txt).ok THEN "whole"
    ELSE IF FenceGroup(txt) # "" /\ json_loads(FenceGroup(txt)).ok THEN "fence"
    ELSE IF BraceScan(txt, 1, 0, 0).ok THEN "braces"
    ELSE "none"

\* Lines 257-262: json.loads of group 1 when the fence pattern matched
FenceLoad(g) == IF g # "" THEN json_loads(g) ELSE JsonFail

\* Lines 253-279: the three attempts in their order
ExtractResult(txt) ==
    FirstOk(json_loads(txt), FirstOk(FenceLoad(FenceGroup(txt)), BraceScan(txt, 1, 0, 0)))

\* The value r.val of the attempts, the verdict of line 281 when all failed
ValueOr(r, unparsable) == IF r.ok THEN r.val ELSE unparsable

\* The value lines 253-281 return for the response text txt
ExtractVerdict(txt) == ValueOr(ExtractResult(txt), UnparsableVerdict(txt))

----------------------------------------------------------------------------
(* The inputs the model draws from *)

\* the number of text nodes of a document
MaxNodes == 2

Body == Element("body", <<>>, "")

H1 == Element("h1", <<>>, "")

Tagline == Element("p", <<"tagline">>, "")

Span == Element("span", <<>>, "")

ClubcardSide == Element("div", <<"clubcard-side">>, "")

\* allowed by its id only
PriceBox == Element("div", <<"box">>, "main-price-box")

\* a class token and an id that only resemble the allowed ones
NearMiss == Element("div", <<"hero", "value-tile-large">>, "hero")

Script == Element("script", <<>>, "")

TextNodes ==
    {TextNode("Save 20% now!", <<H1, Body>>),
     TextNode("$4.99", <<ClubcardSide>>),
     TextNode(" $4.99 ", <<NearMiss, Body>>),
     TextNode("Fresh Taste", <<H1>>),
     TextNode("Money back guarantee", <<Tagline>>),
     TextNode("Win a prize", <<Span, ClubcardSide>>),
     TextNode("12.50 GBP", <<Span, Tagline, PriceBox, Body>>),
     TextNode("$5", <<Script, ClubcardSide>>),
     TextNode("20%off 5% off \n", <<>>)}

RECURSIVE SeqsUpTo(_, _)
SeqsUpTo(S, n) ==
    IF n = 0 THEN {<<>>}
    ELSE SeqsUpTo(S, n - 1) \cup {Append(q, x) : q \in {r \in SeqsUpTo(S, n - 1) : Len(r) = n - 1}, x \in S}

Documents == SeqsUpTo(TextNodes, MaxNodes)

\* objects: none detected, or one with a label and one without
ObjectLists ==
    {PyList(<<>>),
     PyList(<< PyDict(<< <<"label", PyStr(" juice ")>> >>),
               PyDict(<< <<"confidence", PyNum("0.9")>> >>) >>)}

\* GeminiService.__init__: no model without an API key
NoModel == "None"

DefaultModel == "gemini-3-27b-it"

\* What response.text can be, before the strip of line 248
Responses ==
    {"{\"passed\": true, \"reason\": \"OK\", \"details\": []}",
     "{\"passed\": false, \"reason\": \"Percentage in headline\", \"details\": []}\n",
     "Sure! ^^^json\n{\"passed\": true, \"reason\": \"OK\", \"details\": []}\n^^^",
     "{oops} {\"passed\": true, \"reason\": \"OK\"}",
     "I cannot help with that.",
     "{\"passed\": true, \"reason\": \"OK\", \"det",
     "[]",
     "^^^json\n[]\n^^^",
     "{} ^^^json\n{\"passed\": false, \"reason\": \"no\"}\n^^^ ^^^json\n{\"passed\": true, \"reason\": \"OK\"}\n^^^",
     ""}

\* str(e) of what model.generate_content or response.text raises
BackendErrors == {"503 backend unavailable", "response has no valid part"}

\* The backend is a black box that raises or returns text; without a model
\* there is none to call
BackendBehaviours ==
    {[kind |-> "raises", arg |-> e] : e \in BackendErrors}
        \cup {[kind |-> "returns", arg |-> r] : r \in Responses}

NoBackend == [kind |-> "none", arg |-> ""]

NoModelError == "'NoneType' object has no attribute 'generate_content'"

----------------------------------------------------------------------------
(* check_html *)

NoPrompt == [html_content |-> <<>>, detected_objects_text |-> "", user_inputs_text |-> "",
             format_text |-> ""]

\* o.get('label','').strip()
LabelOf(o) == IF HasKey(o, "label") THEN Strip(Get(o, "label").s) ELSE ""

\* Lines 171-173 and the variable parts of the prompt of lines 175-233;
\* assets is the empty dict
BuildPrompt(doc, objs) ==
    [html_content |-> doc,
     detected_objects_text |->
         IF Len(objs.items) = 0 THEN "- (none detected)"
         ELSE Join([k \in 1..Len(objs.items) |-> "- " \o LabelOf(objs.items[k].v)], "\n"),
     user_inputs_text |-> "{}",
     format_text |-> "{}"]

\* Line 288
EngineFailedVerdict(why) ==
    PyDict(<< <<"passed", PyBool(FALSE)>>,
              <<"reason", PyStr("Compliance engine failed: " \o why)>> >>)

\* check_html on its own: no request is served and the table is empty
\* who holds the write transaction
NoHolder == 0

NoApplication ==
    /\ store = <<>>
    /\ dbLock = NoHolder
    /\ dbPending = <<>>
    /\ earlier = <<>>
    /\ saves = <<>>
    /\ fq = [pc |-> "none"]
    /\ an = [pc |-> "none"]
    /\ gen = [pc |-> "none"]

\* the calls of check_html made in one process with the same arguments
MaxCalls == 2

NoOutcome == [result |-> PyNone, exc |-> ""]

Init ==
    /\ html \in Documents
    /\ hashSeed \in HashSeeds
    /\ \/ model = NoModel /\ backend = NoBackend
       \/ model = DefaultModel /\ backend \in BackendBehaviours
    /\ parsed = "unknown"
    /\ pc = "local_scan"
    /\ local = PyNone
    /\ prompt = NoPrompt
    /\ text = ""
    /\ cause = ""
    /\ backendCalls = 0
    /\ scans = 0
    /\ result = PyNone
    /\ exc = ""
    /\ calls = 1
    /\ first = NoOutcome
    /\ NoApplication

\* A faulty variant of LocalScan: the parser's answer for the same markup may
\* differ from one invocation to the next
LocalScanParsesAfresh ==
    /\ pc = "local_scan"
    /\ \E outcome \in {"ok", "failed"} :
          /\ parsed' = outcome
          /\ local' = simple_local_check(html, outcome = "ok", hashSeed)
    /\ scans' = scans + 1
    /\ pc' = "check_local"
    /\ UNCHANGED <<html, hashSeed, model, backend, prompt, text, cause, backendCalls, result, exc, calls, first, appVars>>

\* Line 164: the first run of the local scan.  Whether html.parser accepts
\* the markup is the library's answer, the same each time for the same markup.
LocalScan ==
    /\ pc = "local_scan"
    /\ \E outcome \in (IF parsed = "unknown" THEN {"ok", "failed"} ELSE {parsed}) :
          /\ parsed' = outcome
          /\ local' = simple_local_check(html, outcome = "ok", hashSeed)
    /\ scans' = scans + 1
    /\ pc' = "check_local"
    /\ UNCHANGED <<html, hashSeed, model, backend, prompt, text, cause, backendCalls, result, exc, calls, first, appVars>>

\* A faulty variant of CheckLocal: a failing local verdict does not end the
\* invocation, the backend is consulted all the same
CheckLocalNeverReturns ==
    /\ pc = "check_local"
    /\ IF local.t = "none"
       THEN /\ pc' = "raised"
            /\ exc' = "TypeError: 'NoneType' object is not subscriptable"
            /\ UNCHANGED <<result, prompt>>
       ELSE /\ pc' = "adjudicate"
            /\ \E objects \in ObjectLists : prompt' = BuildPrompt(html, objects)
            /\ UNCHANGED <<exc, result>>
    /\ UNCHANGED <<html, hashSeed, model, backend, parsed, local, text, cause, backendCalls, scans, calls, first, appVars>>

\* Lines 167-233: local['passed'] on None raises TypeError, outside any try;
\* a failing verdict is returned; otherwise the prompt is built, from the
\* objects the caller handed over (read here for the first time)
CheckLocal ==
    /\ pc = "check_local"
    /\ IF local.t = "none"
       THEN /\ pc' = "raised"
            /\ exc' = "TypeError: 'NoneType' object is not subscriptable"
            /\ UNCHANGED <<result, prompt>>
       ELSE IF PassedIsFalse(local)
       THEN /\ pc' = "done"
            /\ result' = local
            /\ UNCHANGED <<exc, prompt>>
       ELSE /\ pc' = "adjudicate"
            /\ \E objects \in ObjectLists : prompt' = BuildPrompt(html, objects)
            /\ UNCHANGED <<exc, result>>
    /\ UNCHANGED <<html, hashSeed, model, backend, parsed, local, text, cause, backendCalls, scans, calls, first, appVars>>

\* Lines 239-248 with no model configured: model.generate_content on None
\* raises AttributeError inside the try
CallUnconfigured ==
    /\ pc = "adjudicate"
    /\ model = NoModel
    /\ cause' = NoModelError
    /\ pc' = "except"
    /\ UNCHANGED <<html, hashSeed, model, backend, parsed, local, prompt, text, backendCalls, scans, result, exc, calls, first, appVars>>

\* Lines 239-248: the call raises, or response.text does
CallBackendRaises ==
    /\ pc = "adjudicate"
    /\ model # NoModel
    /\ backend.kind = "raises"
    /\ backendCalls' = backendCalls + 1
    /\ cause' = backend.arg
    /\ pc' = "except"
    /\ UNCHANGED <<html, hashSeed, model, backend, parsed, local, prompt, text, scans, result, exc, calls, first, appVars>>

\* Lines 239-248: the call returns text
CallBackendReturns ==
    /\ pc = "adjudicate"
    /\ model # NoModel
    /\ backend.kind = "returns"
    /\ backendCalls' = backendCalls + 1
    /\ text' = Strip(backend.arg)
    /\ pc' = "parse"
    /\ UNCHANGED <<html, hashSeed, model, backend, parsed, local, prompt, cause, scans, result, exc, calls, first, appVars>>

\* Lines 253-281
ParseResponse ==
    /\ pc = "parse"
    /\ result' = ExtractVerdict(text)
    /\ pc' = "done"
    /\ UNCHANGED <<html, hashSeed, model, backend, parsed, local, prompt, text, cause, backendCalls, scans, exc, calls, first, appVars>>

\* Lines 282-288: the local scan again; its verdict if it gives one
HandleException ==
    /\ pc = "except"
    /\ local' = simple_local_check(html, parsed = "ok", hashSeed)
    /\ scans' = scans + 1
    /\ result' = IF Truthy(local') THEN local' ELSE EngineFailedVerdict(cause)
    /\ pc' = "done"
    /\ UNCHANGED <<html, hashSeed, model, backend, parsed, prompt, text, cause, backendCalls, exc, calls, first, appVars>>

\* check_html is called again with the same arguments, in the same process
\* and with the same backend: every local of the invocation starts afresh
CallAgain ==
    /\ pc \in {"done", "raised"}
    /\ calls < MaxCalls
    /\ calls' = calls + 1
    /\ first' = IF calls = 1 THEN [result |-> result, exc |-> exc] ELSE first
    /\ pc' = "local_scan"
    /\ local' = PyNone
    /\ prompt' = NoPrompt
    /\ text' = ""
    /\ cause' = ""
    /\ backendCalls' = 0
    /\ scans' = 0
    /\ result' = PyNone
    /\ exc' = ""
    /\ UNCHANGED <<html, parsed, hashSeed, model, backend, appVars>>

Next ==
    \/ CallAgain
    \/ LocalScan
    \/ CheckLocal
    \/ CallUnconfigured
    \/ CallBackendRaises
    \/ CallBackendReturns
    \/ ParseResponse
    \/ HandleException

Spec == Init /\ [][Next]_vars

----------------------------------------------------------------------------
(* Properties of check_html *)

\* the invocation has ended: it returned, or an exception escaped it
Terminal == pc \in {"done", "raised"}

\* Some ancestor of the node, at any depth, carries an allow-listed class
\* token or an id that contains an allowed substring
HasAllowedAncestor(node) ==
    \E k \in 1..Len(node.anc) :
        \/ \E c \in 1..Len(node.anc[k].class) : node.anc[k].class[c] \in ALLOWED_VALUE_TILE_CLASSES
        \/ \E sub \in AllowedIdSubstrings : Contains(node.anc[k].id, sub)

HasPriceMatch(txt) == price_regex_search(txt)[1] # 0

\* a text node that is not white space only and not the content of script or style
IsVisibleText(node) ==
    /\ \E j \in 1..Len(node.text) : ~IsSpace(Char(node.text, j))
    /\ ParentName(node) \notin {"script", "style"}

OutOfTilePriceNodes(doc) ==
    {i \in 1..Len(doc) :
        IsVisibleText(doc[i]) /\ HasPriceMatch(doc[i].text) /\ ~HasAllowedAncestor(doc[i])}

InTilePriceNodes(doc) ==
    {i \in 1..Len(doc) :
        IsVisibleText(doc[i]) /\ HasPriceMatch(doc[i].text) /\ HasAllowedAncestor(doc[i])}

\* The out-of-tile text of the document: the visible text nodes with no
\* allowed ancestor, stripped, joined by one space, in lower case
RECURSIVE OutOfTileTextFrom(_, _)
OutOfTileTextFrom(doc, i) ==
    IF i > Len(doc) THEN <<>>
    ELSE IF IsVisibleText(doc[i]) /\ ~HasAllowedAncestor(doc[i])
    THEN <<Strip(doc[i].text)>> \o OutOfTileTextFrom(doc, i + 1)
    ELSE OutOfTileTextFrom(doc, i + 1)

OutOfTileText(doc) == Lower(Join(OutOfTileTextFrom(doc, 1), " "))

\* the banned phrases that the text contains
BannedPhrasesOf(txt) == {kw \in COPY_HARD_FAIL_KEYWORDS : Contains(txt, kw)}

BannedPhrasesIn(doc) == BannedPhrasesOf(OutOfTileText(doc))

Quoted(kw) == "'" \o kw \o "'"

CopyFailPrefix == "Disallowed copy keyword detected outside value-tile: "

PriceFailReason == "Price/discount copy detected outside allowed value-tile"

\* C1: check_html never raises: whatever the markup and whatever the backend
\* does (parsable text, unparsable text, an exception, no model), no exception
\* escapes the call, also when the local scan returns None.
C1_NeverRaises == pc # "raised" /\ exc = ""

\* C2: when the local scan gives None or a passing verdict, check_html goes on
\* to build the prompt and to consult the backend: it never ends there, and when
\* the backend answers, the value returned is the one extracted from the answer.
C2_NullOrPassAdjudicates ==
    (pc \notin {"local_scan", "check_local"} /\ ~PassedIsFalse(local)) =>
        /\ pc # "raised"
        /\ \E o \in ObjectLists : prompt = BuildPrompt(html, o)
        /\ (pc = "done" /\ backend.kind = "returns") =>
               (backendCalls = 1 /\ result = ExtractVerdict(text))

\* C3: when the local scan gives a failing verdict, check_html returns exactly
\* that verdict and does not call the backend.
C3_LocalFailShortCircuits ==
    (pc # "check_local" /\ PassedIsFalse(local)) =>
        (pc = "done" /\ result = local /\ backendCalls = 0 /\ prompt = NoPrompt)

C3_Witness ==
    /\ pc = "done"
    /\ PassedIsFalse(local)
    /\ result = local
    /\ backendCalls = 0
    /\ backend.kind = "returns"

\* C4: when some visible text node has a price match and no ancestor of it is
\* an allowed tile, check_html returns passed = false, wherever the node stands
\* in the document and whatever in-tile prices stand beside it.
C4_OutOfTilePriceFails ==
    (parsed = "ok" /\ pc \notin {"local_scan", "check_local"} /\ OutOfTilePriceNodes(html) # {}) =>
        (pc = "done" /\ PassedIsFalse(result))

C4_Witness ==
    /\ pc = "done"
    /\ parsed = "ok"
    /\ Len(html) = 2
    /\ InTilePriceNodes(html) = {1}
    /\ OutOfTilePriceNodes(html) = {2}
    /\ BannedPhrasesIn(html) = {}
    /\ PassedIsFalse(result)
    /\ ReasonOf(result) = PriceFailReason

\* C5: the price pattern matches a bare percentage on its own, so for the
\* markup <body><h1>Save 20% now!</h1></body> check_html returns passed = false
\* with a reason that mentions the price/discount detection, without a call to
\* the backend.
C5_BarePercentageFails ==
    (Terminal /\ parsed = "ok" /\ html = <<TextNode("Save 20% now!", <<H1, Body>>)>>) =>
        /\ HasPriceMatch("Save 20% now!")
        /\ pc = "done"
        /\ PassedIsFalse(result)
        /\ Contains(Lower(ReasonOf(result)), "price")
        /\ backendCalls = 0

\* C6: a text node counts as inside an allowed tile exactly when some ancestor,
\* at any depth, has an allow-listed class token or an id with an allowed
\* substring; the walk makes at most one step per ancestor; a price inside an
\* allowed tile never makes the local scan fail on the price rule and, when the
\* scan passes, is recorded as one detail entry with result "pass".
C6_AllowedTileMembership ==
    /\ \A i \in 1..Len(html) :
          /\ is_within_allowed_tile(html[i]) <=> HasAllowedAncestor(html[i])
          /\ AllowedTileWalk(html[i].anc, 1)[2] <= Len(html[i].anc)
    /\ (parsed = "ok" /\ pc = "check_local") =>
          /\ ReasonOf(local) = PriceFailReason => OutOfTilePriceNodes(html) # {}
          /\ PassedIsTrue(local) =>
                /\ Len(Get(local, "details").items) = Cardinality(InTilePriceNodes(html))
                /\ InTilePriceNodes(html) # {}
                /\ \A k \in 1..Len(Get(local, "details").items) :
                      Get(Get(local, "details").items[k].v, "result").s = "pass"

C6_Witness ==
    /\ pc = "check_local"
    /\ parsed = "ok"
    /\ PassedIsTrue(local)
    /\ Len(Get(local, "details").items) = 2
    /\ \E i \in InTilePriceNodes(html) :
          /\ Len(html[i].anc) >= 3
          /\ ~ParentIsAllowedTile(html[i].anc[1])
          /\ ~ParentIsAllowedTile(html[i].anc[2])

\* C7 as stated: when the out-of-tile text contains a banned phrase,
\* check_html returns passed = false and the reason quotes that very phrase.
C7_ReasonQuotesThatPhrase ==
    (Terminal /\ parsed = "ok") =>
        \A kw \in BannedPhrasesIn(html) :
            /\ pc = "done"
            /\ PassedIsFalse(result)
            /\ Contains(ReasonOf(result), Quoted(kw))

\* banned being the banned phrases that the out-of-tile text contains: the
\* invocation has failed quoting one of them if there is any, and a local
\* verdict that reports banned copy quotes one of them
QuotesOneOf(banned) ==
    /\ banned # {} =>
          /\ pc = "done"
          /\ PassedIsFalse(result)
          /\ \E kw \in banned : ReasonOf(result) = CopyFailPrefix \o Quoted(kw)
    /\ (pc = "done" /\ backendCalls = 0 /\ cause = "" /\ StartsWithAt(ReasonOf(result), 1, CopyFailPrefix)) =>
          \E kw \in banned : ReasonOf(result) = CopyFailPrefix \o Quoted(kw)

\* C7 as amended: when the out-of-tile text contains a banned phrase,
\* check_html returns passed = false and the reason quotes one of the banned
\* phrases that the out-of-tile text contains; and a local verdict that
\* reports banned copy always quotes a phrase of the out-of-tile text, so a
\* phrase that stands only inside an allowed tile does not cause it.
C7_ReasonQuotesSomeContainedPhrase ==
    (Terminal /\ parsed = "ok") => QuotesOneOf(BannedPhrasesIn(html))

C7_Witness ==
    /\ pc = "done"
    /\ parsed = "ok"
    /\ "money back guarantee" \in BannedPhrasesIn(html)
    /\ PassedIsFalse(result)
    /\ ReasonOf(result) = CopyFailPrefix \o Quoted("guarantee")

\* C8: when the backend call errors (it raises, or no model is configured),
\* check_html never returns a verdict with passed = true.
C8_NoPassWhenBackendErrors == (pc = "done" /\ cause # "") => ~PassedIsTrue(result)

\* C9: when the backend raises and the local scan gives None, check_html
\* returns passed = false with a reason that holds "compliance engine failed"
\* followed by the cause.
C9_EngineFailedFallback ==
    (Terminal /\ local.t = "none" /\ backend.kind = "raises") =>
        /\ pc = "done"
        /\ PassedIsFalse(result)
        /\ Contains(Lower(ReasonOf(result)), "compliance engine failed: " \o Lower(backend.arg))

\* C10: a response from which no extraction step gives JSON is answered with
\* passed = false, a reason that holds "unparsable response" and the raw text;
\* the backend is called at most once in an invocation, and exactly once when
\* the local scan did not fail.
C10_UnparsableNoRetry ==
    Terminal =>
        /\ backendCalls <= 1
        /\ (model # NoModel /\ ~PassedIsFalse(local)) => backendCalls = 1
        /\ (backendCalls = 1 /\ backend.kind = "returns" /\ ExtractionStep(text) = "none") =>
              /\ pc = "done"
              /\ PassedIsFalse(result)
              /\ Contains(ReasonOf(result), "unparsable response")
              /\ HasKey(result, "raw") /\ Get(result, "raw").s = text

----------------------------------------------------------------------------
(* Properties of the extraction of lines 253-281 *)

\* the backend answered and check_html returned what it made of the answer
Answered == pc = "done" /\ backendCalls = 1 /\ backend.kind = "returns"

\* opening minus closing braces among the first k characters of s
BraceSum(s, k) ==
    Cardinality({i \in 1..k : Char(s, i) = "{"}) - Cardinality({i \in 1..k : Char(s, i) = "}"})

\* the brace nesting depth after the first k characters of s; a closing brace
\* at depth 0 does not count, so the depth is the sum less its lowest value so far
DepthAfter(s, k) ==
    BraceSum(s, k) - (CHOOSE m \in {BraceSum(s, j) : j \in 0..k} :
                          \A j \in 0..k : m <= BraceSum(s, j))

\* <<a, b>>: s[a..b] is a balanced top-level {...} substring
BalancedSpans(s) ==
    {ab \in {a \in 1..Len(s) : Char(s, a) = "{"} \X {b \in 1..Len(s) : Char(s, b) = "}"} :
        /\ ab[1] < ab[2]
        /\ DepthAfter(s, ab[1] - 1) = 0
        /\ DepthAfter(s, ab[2]) = 0
        /\ \A k \in ab[1]..(ab[2] - 1) : DepthAfter(s, k) > 0}

ParsableBalancedSpans(s) == {ab \in BalancedSpans(s) : json_loads(SubSeq(s, ab[1], ab[2])).ok}

\* the first balanced top-level substring that parses, "" when there is none
FirstParsableBalanced(s) ==
    IF ParsableBalancedSpans(s) = {} THEN ""
    ELSE LET ab == CHOOSE x \in ParsableBalancedSpans(s) :
                       \A y \in ParsableBalancedSpans(s) : x[2] <= y[2]
         IN SubSeq(s, ab[1], ab[2])

\* the positions of the opening fences of s
FenceStarts(s) == {p \in 1..Len(s) : StartsWithAt(s, p, FenceOpen)}

\* The contents of the first fenced block: what stands between the first
\* opening fence and the closing fence that follows it, stripped; "" when
\* there is no such block
FirstFencedBlock(s) ==
    IF FenceStarts(s) = {} THEN ""
    ELSE LET p == CHOOSE a \in FenceStarts(s) : \A b \in FenceStarts(s) : a <= b
             from == p + Len(FenceOpen)
             ends == {q \in from..Len(s) : StartsWithAt(s, q, FenceClose)}
         IN IF ends = {} THEN ""
            ELSE Strip(SubSeq(s, from, (CHOOSE a \in ends : \A b \in ends : a <= b) - 1))

\* <<a, b>>: s[a] is a "{" that follows an opening fence and white space,
\* s[b] a "}" that white space and a closing fence follow
FencedObjectSpans(s) ==
    {ab \in {a \in 1..Len(s) : Char(s, a) = "{"} \X {b \in 1..Len(s) : Char(s, b) = "}"} :
        /\ ab[1] < ab[2]
        /\ \E p \in FenceStarts(s) : SkipWs(s, p + Len(FenceOpen)) = ab[1]
        /\ StartsWithAt(s, SkipWs(s, ab[2] + 1), FenceClose)}

\* from the first such "{" to the last such "}"; "" when there is none
GreedyFencedObject(s) ==
    IF FencedObjectSpans(s) = {} THEN ""
    ELSE LET a == CHOOSE x \in {ab[1] : ab \in FencedObjectSpans(s)} :
                      \A y \in {ab[1] : ab \in FencedObjectSpans(s)} : x <= y
             b == CHOOSE x \in {ab[2] : ab \in FencedObjectSpans(s)} :
                      \A y \in {ab[2] : ab \in FencedObjectSpans(s)} : y <= x
         IN SubSeq(s, a, b)

\* the value of the first of three attempts that parses, the verdict of
\* line 281 when none does; fenced is the text the second attempt parses
FirstSuccess(s, fenced) ==
    IF json_loads(s).ok THEN json_loads(s).val
    ELSE IF fenced # "" /\ json_loads(fenced).ok THEN json_loads(fenced).val
    ELSE IF FirstParsableBalanced(s) # "" THEN json_loads(FirstParsableBalanced(s)).val
    ELSE UnparsableVerdict(s)

\* what the three attempts, with the greedy fenced span, make of each answer
\* text the backend can give
ExpectedOfAnswer ==
    [t \in {Strip(r) : r \in Responses} |-> FirstSuccess(t, GreedyFencedObject(t))]

\* the object of the response "prose, then a fenced JSON object"
OkObject ==
    PyDict(<< <<"passed", PyBool(TRUE)>>, <<"reason", PyStr("OK")>>,
              <<"details", PyList(<<>>)>> >>)

\* C11 as stated: the value returned is the first success of (1) the parse of
\* the whole text, (2) the parse of the contents of the fenced block, (3) the
\* first balanced top-level {...} substring that parses.
C11_FencedBlockContents == Answered => result = FirstSuccess(text, FirstFencedBlock(text))

\* C11 as amended: the second attempt parses the text from the first "{" that
\* follows an opening fence to the last "}" that a closing fence follows, and
\* nothing else of a fenced block; the order, the first success and the brace
\* scan are as stated, and prose followed by one fenced JSON object yields
\* exactly that object.
C11_FirstSuccessInOrder ==
    Answered =>
        /\ result = ExpectedOfAnswer[text]
        /\ backend.arg = "Sure! ^^^json\n{\"passed\": true, \"reason\": \"OK\", \"details\": []}\n^^^"
               => result = OkObject

\* a fenced answer after a parsable object in the prose: the greedy span over
\* both fenced blocks does not parse and the brace scan gives the first object
C11_Witness ==
    /\ Answered
    /\ Cardinality(FenceStarts(text)) = 2
    /\ ~json_loads(text).ok
    /\ GreedyFencedObject(text) # "" /\ ~json_loads(GreedyFencedObject(text)).ok
    /\ result = PyDict(<<>>)

----------------------------------------------------------------------------
(* Properties of the values check_html and the local scan return *)

DetailResults == {"pass", "fail", "warn"}

\* {rule, result in {pass, fail, warn}, explain}
WellFormedDetail(d) ==
    /\ HasKey(d, "rule") /\ Get(d, "rule").t = "str"
    /\ HasKey(d, "result") /\ Get(d, "result").t = "str" /\ Get(d, "result").s \in DetailResults
    /\ HasKey(d, "explain") /\ Get(d, "explain").t = "str"

\* a mapping with a boolean passed, a string reason and, if present, details
\* as a sequence of well-formed entries
WellFormedVerdict(v) ==
    /\ HasKey(v, "passed") /\ Get(v, "passed").t = "bool"
    /\ HasKey(v, "reason") /\ Get(v, "reason").t = "str"
    /\ HasKey(v, "details") =>
          /\ Get(v, "details").t = "list"
          /\ \A k \in 1..Len(Get(v, "details").items) :
                WellFormedDetail(Get(v, "details").items[k].v)

\* C12: every value check_html returns is a well-formed Verdict, whatever
\* JSON the backend answered with: JSON that is not an object, or an object
\* without passed or reason, included.
C12_ReturnsWellFormedVerdict == pc = "done" => WellFormedVerdict(result)

KeywordIn(txt) == \E kw \in COPY_HARD_FAIL_KEYWORDS \cup PRICE_KEYWORDS : Contains(txt, kw)

KeywordInFlatText(doc) == KeywordIn(Lower(FlatTextFrom(doc, 1)))

\* C15: when the parser fails on the markup, the scan is the keyword scan over
\* the tag-stripped text: a failing verdict when a keyword stands in it, None
\* when none does, and never a verdict with passed = true.
C15_DegradedNeverPasses ==
    (pc = "check_local" /\ parsed = "failed") =>
        /\ ~PassedIsTrue(local)
        /\ local = PyNone \/ PassedIsFalse(local)
        /\ PassedIsFalse(local) <=> KeywordInFlatText(html)

\* an in-tile price, which the structural scan would pass, gives None here
C15_Witness ==
    /\ pc = "check_local"
    /\ parsed = "failed"
    /\ InTilePriceNodes(html) # {}
    /\ ~KeywordInFlatText(html)
    /\ local = PyNone

----------------------------------------------------------------------------
(* The palette table: palette_db.py, palette_routes.py and lines 246-261 of *)
(* app.py.  Every request opens a connection of its own (get_db); a         *)
(* connection's INSERT opens a write transaction, which SQLite grants to    *)
(* one connection at a time, and commit() ends it.                          *)

\* data.get("accentColor") of a request without that colour: None, stored as NULL
NoColour == "NULL"

PaletteOf(primary) == <<primary, "#000000", "#8B4513", "#FFFFFF">>

\* the colour tuples the requests of the model carry: all four colours, or no
\* accentColor
RequestTuples == {PaletteOf("#FFD700"), <<"#FFD700", "#000000", NoColour, "#FFFFFF">>}

\* palettes.db as earlier runs of the server left it
EarlierRows ==
    << [tuple |-> PaletteOf("#E4002B"), count |-> 4],
       [tuple |-> PaletteOf("#00539F"), count |-> 1],
       [tuple |-> PaletteOf("#F5A623"), count |-> 2],
       [tuple |-> PaletteOf("#7B3F9E"), count |-> 2],
       [tuple |-> PaletteOf("#2E2E2E"), count |-> 3],
       [tuple |-> PaletteOf("#FFD700"), count |-> 1] >>

\* UNIQUE(primary_color, secondary_color, accent_color, bg_color): a tuple with
\* a NULL in it conflicts with no row, not even an equal one
ConflictsWith(rows, t) ==
    IF \E c \in 1..4 : t[c] = NoColour THEN {}
    ELSE {k \in 1..Len(rows) : rows[k].tuple = t}

\* A faulty variant of Upsert: it inserts a row whether or not the tuple is there
InsertAlways(rows, t) == Append(rows, [tuple |-> t, count |-> 1])

\* INSERT ... VALUES (?, ?, ?, ?, 1) ON CONFLICT(...) DO UPDATE SET
\* usage_count = usage_count + 1
Upsert(rows, t) ==
    IF ConflictsWith(rows, t) = {} THEN Append(rows, [tuple |-> t, count |-> 1])
    ELSE [k \in 1..Len(rows) |->
             IF k \in ConflictsWith(rows, t)
             THEN [tuple |-> rows[k].tuple, count |-> rows[k].count + 1]
             ELSE rows[k]]

\* LIMIT 6 of get_frequent_palettes
FrequentLimit == 6

\* the number of rows that ORDER BY usage_count DESC puts before row k; rows
\* of equal usage_count come in rowid order, the order of the table scan
RowsBefore(rows, k) ==
    Cardinality({j \in 1..Len(rows) :
                    \/ rows[j].count > rows[k].count
                    \/ rows[j].count = rows[k].count /\ j < k})

\* A faulty variant of TopRows: the rows in rowid order, not by usage_count
FirstRows(rows, limit) ==
    [n \in 1..(IF Len(rows) < limit THEN Len(rows) ELSE limit) |-> n]

\* SELECT ... ORDER BY usage_count DESC LIMIT 6: the rowids of the rows fetched
TopRows(rows, limit) ==
    [n \in 1..(IF Len(rows) < limit THEN Len(rows) ELSE limit) |->
        CHOOSE k \in 1..Len(rows) : RowsBefore(rows, k) = n - 1]

\* the total usage_count of the rows of tuple t
RECURSIVE TotalCount(_, _, _)
TotalCount(rows, t, k) ==
    IF k > Len(rows) THEN 0
    ELSE (IF rows[k].tuple = t THEN rows[k].count ELSE 0) + TotalCount(rows, t, k + 1)

AllTuples == RequestTuples \cup {EarlierRows[k].tuple : k \in 1..Len(EarlierRows)}

\* the number of POST /api/palettes/save requests in flight
MaxSaves == 2

SaveIds == 1..MaxSaves


GenHolder == MaxSaves + 1

\* the multimodal model analyze_product_image switches the service to (line 56)
AnalysisModel == "gemini-2.5-flash-lite"

\* the model generate_layout switches the service to (line 189)
LayoutModel == "gemma-3-27b-it"

----------------------------------------------------------------------------
(* The requests: save_palette, get_frequent_palettes, analyze_image and     *)
(* generate_layout, each served by a thread of its own                      *)

\* layout_1['content'] as the generation backend can give it: markup the
\* local scan fails, markup it has nothing to say about, markup it passes
LayoutDocs ==
    {<<TextNode("Money back guarantee", <<Tagline>>)>>,
     <<TextNode("Fresh Taste", <<H1>>)>>,
     <<TextNode("$4.99", <<ClubcardSide>>), TextNode("Fresh Taste", <<H1>>)>>}

\* what the reasoning backend does when check_html calls it
GenBackends ==
    {[kind |-> "returns", arg |-> "{\"passed\": true, \"reason\": \"OK\", \"details\": []}"],
     [kind |-> "returns", arg |-> "{\"passed\": false, \"reason\": \"Percentage in headline\", \"details\": []}\n"],
     [kind |-> "returns", arg |-> "[]"],
     [kind |-> "raises", arg |-> "503 backend unavailable"]}

\* Lines 285-288: the rescan's value if it is truthy, else the failure verdict
LocalOr(l, failed) == IF Truthy(l) THEN l ELSE failed

\* Lines 238-288 of check_html for the backend behaviour b: the value returned
AdjudicatedVerdict(doc, parseOk, seed, b) ==
    IF b.kind = "returns" THEN ExtractVerdict(Strip(b.arg))
    ELSE LocalOr(simple_local_check(doc, parseOk, seed), EngineFailedVerdict(b.arg))

\* app.py line 299: not compliance_report.get("passed", False), for a dict
NotPassed(report) == ~(HasKey(report, "passed") /\ Truthy(Get(report, "passed")))

\* the generate-layout request before its first step
NewGen(t, analysis) ==
    [pc |-> "upsert", tuple |-> t, hasAnalysis |-> analysis,
     layouts |-> 0, checks |-> 0, hasContent |-> FALSE, doc |-> <<>>,
     parseOk |-> TRUE, saved |-> FALSE,
     ctorModel |-> NoModel, calledModel |-> NoModel,
     local |-> PyNone, report |-> PyNone,
     status |-> 0, compliance |-> PyNone, error |-> ""]

\* the request ends in the handler of lines 334-337: {"error": str(e)}, 500
GenError(g, e) == [g EXCEPT !.pc = "done", !.status = 500, !.error = e]

AppInit ==
    /\ hashSeed \in HashSeeds
    /\ model \in {NoModel, DefaultModel}
    /\ html = <<>>
    /\ parsed = "unknown"
    /\ backend = NoBackend
    /\ pc = "none"
    /\ local = PyNone
    /\ prompt = NoPrompt
    /\ text = ""
    /\ cause = ""
    /\ backendCalls = 0
    /\ scans = 0
    /\ result = PyNone
    /\ exc = ""
    /\ calls = 0
    /\ first = NoOutcome
    /\ store \in {<<>>, EarlierRows}
    /\ dbLock = NoHolder
    /\ dbPending = store
    /\ earlier = store
    /\ saves \in [SaveIds -> [pc : {"execute"}, tuple : RequestTuples, status : {0}]]
    /\ fq = [pc |-> "idle", rowids |-> <<>>, scanned |-> 0]
    /\ an = [pc |-> "idle"]
    /\ \E t \in RequestTuples, analysis \in BOOLEAN : gen = NewGen(t, analysis)

\* palette_routes.py lines 10-22: conn.execute of the upsert, on a new connection
SaveExecute(r) ==
    /\ saves[r].pc = "execute"
    /\ dbLock = NoHolder
    /\ dbLock' = r
    /\ dbPending' = Upsert(store, saves[r].tuple)
    /\ saves' = [saves EXCEPT ![r].pc = "commit"]
    /\ UNCHANGED <<hashSeed, model, checkVars, store, earlier, fq, an, gen>>

\* conn.execute while another connection holds the write transaction, past
\* the busy timeout: sqlite3.OperationalError (database is locked), which
\* save_palette does not catch
SaveBusy(r) ==
    /\ saves[r].pc = "execute"
    /\ dbLock # NoHolder
    /\ saves' = [saves EXCEPT ![r].pc = "done", ![r].status = 500]
    /\ UNCHANGED <<hashSeed, model, checkVars, store, dbLock, dbPending, earlier, fq, an, gen>>

\* palette_routes.py lines 23-26: conn.commit(), conn.close(), {"success": True}
SaveCommit(r) ==
    /\ saves[r].pc = "commit"
    /\ dbLock = r
    /\ store' = dbPending
    /\ dbLock' = NoHolder
    /\ saves' = [saves EXCEPT ![r].pc = "done", ![r].status = 200]
    /\ UNCHANGED <<hashSeed, model, checkVars, earlier, dbPending, fq, an, gen>>

\* palette_routes.py lines 29-40: the query reads the committed rows
FrequentQuery ==
    /\ fq.pc = "idle"
    /\ fq' = [pc |-> "done", rowids |-> TopRows(store, FrequentLimit), scanned |-> Len(store)]
    /\ UNCHANGED <<hashSeed, model, checkVars, store, dbLock, dbPending, earlier, saves, an, gen>>

\* analyze_image -> analyze_product_image: the fallback without a model
\* (lines 30-31), else line 56 replaces the service's model
AnalyzeImage ==
    /\ an.pc = "idle"
    /\ an' = [pc |-> "done"]
    /\ model' = IF model = NoModel THEN NoModel ELSE AnalysisModel
    /\ UNCHANGED <<hashSeed, checkVars, store, dbLock, dbPending, earlier, saves, fq, gen>>

\* A faulty variant of ModelAfterLayout: the model is assigned with no look at
\* the configuration
ModelAssignedAlways(m) == LayoutModel

\* gemini_service.generate_layout: the fallback layout without a model (lines
\* 90-91); else line 189 replaces the service's model and the call is made
ModelAfterLayout(m) == IF m = NoModel THEN NoModel ELSE LayoutModel

\* app.py lines 246-259: conn.execute of the upsert, inside the try
GenUpsertExecute ==
    /\ gen.pc = "upsert"
    /\ dbLock = NoHolder
    /\ dbLock' = GenHolder
    /\ dbPending' = Upsert(store, gen.tuple)
    /\ gen' = [gen EXCEPT !.pc = "commit"]
    /\ UNCHANGED <<hashSeed, model, checkVars, store, earlier, saves, fq, an>>

\* the same statement while another connection holds the write transaction
GenUpsertBusy ==
    /\ gen.pc = "upsert"
    /\ dbLock # NoHolder
    /\ gen' = GenError(gen, "database is locked")
    /\ UNCHANGED <<hashSeed, model, checkVars, store, dbLock, dbPending, earlier, saves, fq, an>>

\* A faulty variant of GenUpsertCommit: the connection is closed with no commit
GenUpsertClosedUncommitted ==
    /\ gen.pc = "commit"
    /\ dbLock = GenHolder
    /\ dbLock' = NoHolder
    /\ gen' = [gen EXCEPT !.pc = "layout_1", !.saved = TRUE]
    /\ UNCHANGED <<hashSeed, model, checkVars, store, earlier, dbPending, saves, fq, an>>

\* app.py lines 260-261
GenUpsertCommit ==
    /\ gen.pc = "commit"
    /\ dbLock = GenHolder
    /\ store' = dbPending
    /\ dbLock' = NoHolder
    /\ gen' = [gen EXCEPT !.pc = "layout_1", !.saved = TRUE]
    /\ UNCHANGED <<hashSeed, model, checkVars, earlier, dbPending, saves, fq, an>>

\* app.py lines 272-280: product_analysis.get on None raises before the call;
\* the layout that comes back holds markup under 'content', or is the
\* fallback layout, which has no such key
GenLayout1 ==
    /\ gen.pc = "layout_1"
    /\ IF ~gen.hasAnalysis
       THEN /\ gen' = GenError(gen, "'NoneType' object has no attribute 'get'")
            /\ UNCHANGED model
       ELSE /\ model' = ModelAfterLayout(model)
            /\ \/ gen' = [gen EXCEPT !.pc = "check", !.layouts = @ + 1]
               \/ /\ model # NoModel
                  /\ \E d \in LayoutDocs, ok \in BOOLEAN :
                        gen' = [gen EXCEPT !.pc = "check", !.layouts = @ + 1,
                                           !.hasContent = TRUE, !.doc = d, !.parseOk = ok]
    /\ UNCHANGED <<hashSeed, checkVars, store, dbLock, dbPending, earlier, saves, fq, an>>

\* check_html lines 167-168 on the local scan's value l: the subscript of None
\* raises TypeError, a failing verdict is returned, otherwise the backend is asked
AfterLocalScan(g, l) ==
    IF l.t = "none"
    THEN GenError([g EXCEPT !.local = l], "'NoneType' object is not subscriptable")
    ELSE IF PassedIsFalse(l)
    THEN [g EXCEPT !.pc = "verdict", !.local = l, !.report = l]
    ELSE [g EXCEPT !.pc = "check_backend", !.local = l]

\* app.py lines 284-294 and check_html lines 164-168: the checker is built on
\* the service, layout_1['content'] is read, the local scan runs
GenCheckStart ==
    /\ gen.pc = "check"
    /\ gen' = IF ~gen.hasContent
              THEN GenError(gen, "'content'")
              ELSE AfterLocalScan([gen EXCEPT !.checks = @ + 1, !.ctorModel = model],
                                  simple_local_check(gen.doc, gen.parseOk, hashSeed))
    /\ UNCHANGED <<hashSeed, model, checkVars, store, dbLock, dbPending, earlier, saves, fq, an>>

\* check_html lines 238-288: self.gemini.model is read now, and called
GenCheckBackend ==
    /\ gen.pc = "check_backend"
    /\ \E b \in GenBackends :
          gen' = [gen EXCEPT !.pc = "verdict", !.calledModel = model,
                             !.report = AdjudicatedVerdict(gen.doc, gen.parseOk, hashSeed,
                                            IF model = NoModel
                                            THEN [kind |-> "raises", arg |-> NoModelError]
                                            ELSE b)]
    /\ UNCHANGED <<hashSeed, model, checkVars, store, dbLock, dbPending, earlier, saves, fq, an>>

\* app.py lines 299-305: .get on what check_html returned
GenVerdict ==
    /\ gen.pc = "verdict"
    /\ gen' = IF gen.report.t # "dict"
              THEN GenError(gen, "'list' object has no attribute 'get'")
              ELSE IF NotPassed(gen.report)
              THEN [gen EXCEPT !.pc = "done", !.status = 400, !.compliance = gen.report]
              ELSE [gen EXCEPT !.pc = "layout_2"]
    /\ UNCHANGED <<hashSeed, model, checkVars, store, dbLock, dbPending, earlier, saves, fq, an>>

\* A faulty variant of GenLayout2: the second layout is submitted to the check
GenLayout2Checked ==
    /\ gen.pc = "layout_2"
    /\ model' = ModelAfterLayout(model)
    /\ gen' = [gen EXCEPT !.pc = "layout_3", !.layouts = @ + 1, !.checks = @ + 1]
    /\ UNCHANGED <<hashSeed, checkVars, store, dbLock, dbPending, earlier, saves, fq, an>>

\* app.py lines 310-318
GenLayout2 ==
    /\ gen.pc = "layout_2"
    /\ model' = ModelAfterLayout(model)
    /\ gen' = [gen EXCEPT !.pc = "layout_3", !.layouts = @ + 1]
    /\ UNCHANGED <<hashSeed, checkVars, store, dbLock, dbPending, earlier, saves, fq, an>>

\* app.py lines 322-332
GenLayout3 ==
    /\ gen.pc = "layout_3"
    /\ model' = ModelAfterLayout(model)
    /\ gen' = [gen EXCEPT !.pc = "done", !.layouts = @ + 1, !.status = 200]
    /\ UNCHANGED <<hashSeed, checkVars, store, dbLock, dbPending, earlier, saves, fq, an>>

AppNext ==
    \/ \E r \in SaveIds : SaveExecute(r)
    \/ \E r \in SaveIds : SaveBusy(r)
    \/ \E r \in SaveIds : SaveCommit(r)
    \/ FrequentQuery
    \/ AnalyzeImage
    \/ GenUpsertExecute
    \/ GenUpsertBusy
    \/ GenUpsertCommit
    \/ GenLayout1
    \/ GenCheckStart
    \/ GenCheckBackend
    \/ GenVerdict
    \/ GenLayout2
    \/ GenLayout3

AppSpec == AppInit /\ [][AppNext]_vars

----------------------------------------------------------------------------
(* Claims about the generate-layout workflow and the palette table          *)

\* check_html has returned to the request (line 294 has a value)
CheckReturned == gen.report.t # "none"

\* the returned value says passed
ReportPassed == gen.report.t = "dict" /\ ~NotPassed(gen.report)

\* C16: the compliance check runs after the first layout; when what it
\* returned is not a pass, the request ends with the 400 response that carries
\* it and exactly one layout was generated; the second and third layouts are
\* generated, and success is answered, only after a pass
C16_WorkflowOrdering ==
    /\ gen.checks >= 1 => gen.layouts >= 1
    /\ gen.layouts > 1 => ReportPassed
    /\ gen.status = 200 => ReportPassed /\ gen.layouts = 3
    /\ (gen.pc = "done" /\ CheckReturned /\ ~ReportPassed) =>
          /\ gen.layouts = 1
          /\ gen.status = 400
          /\ gen.compliance = gen.report

\* the same, for the verdicts that are mappings: what holds of the code
C16_OrderingForMappings ==
    /\ gen.checks >= 1 => gen.layouts >= 1
    /\ gen.layouts > 1 => ReportPassed
    /\ gen.status = 200 => ReportPassed /\ gen.layouts = 3
    /\ (gen.pc = "done" /\ gen.report.t = "dict" /\ ~ReportPassed) =>
          /\ gen.layouts = 1
          /\ gen.status = 400
          /\ gen.compliance = gen.report
    /\ (gen.pc = "done" /\ CheckReturned /\ ~ReportPassed) => gen.layouts = 1

C16_RejectedReached == gen.status = 400 /\ gen.compliance = gen.report /\ gen.layouts = 1

C16_SuccessReached == gen.status = 200 /\ gen.layouts = 3

\* the rowids of the committed rows of tuple t
RowsOf(t) == {k \in 1..Len(store) : store[k].tuple = t}

\* the requests whose upsert of tuple t is committed
SavedBy(t) ==
    {r \in SaveIds : saves[r].tuple = t /\ saves[r].status = 200}
        \cup {r \in {GenHolder} : gen.tuple = t /\ gen.saved}

\* the times tuple t was observed: before the server started and since
Observed(t) == TotalCount(earlier, t, 1) + Cardinality(SavedBy(t))

\* tuple t has at most one row, and that row counts the observations of t
CountedOnce(t) ==
    /\ Cardinality(RowsOf(t)) <= 1
    /\ Observed(t) > 0 => RowsOf(t) # {}
    /\ \A k \in RowsOf(t) : store[k].count = Observed(t)

\* C17: whatever upserts were committed, by /api/palettes/save and by
\* generate-layout, every tuple, complete or with a colour missing, has at most
\* one row and the row's usage_count is the number of times it was observed
C17_OneRowPerTuple == \A t \in AllTuples : CountedOnce(t)

\* the same for the tuples that have all four colours: what holds of the code
C17_CompleteTuples ==
    \A t \in AllTuples : (\A c \in 1..4 : t[c] # NoColour) => CountedOnce(t)

C17_RepeatReached ==
    /\ Observed(PaletteOf("#FFD700")) >= 3
    /\ Cardinality(RowsOf(PaletteOf("#FFD700"))) = 1

\* the requests that carry tuple t
RequestsWith(t) ==
    {r \in SaveIds : saves[r].tuple = t} \cup {r \in {GenHolder} : gen.tuple = t}

\* t has all four colours
Complete(t) == \A c \in 1..4 : t[c] # NoColour

BackendAsked == gen.checks = 1 /\ gen.pc \in {"verdict", "layout_2", "layout_3", "done"}
                    /\ gen.local.t = "dict" /\ ~PassedIsFalse(gen.local)

\* C19: the model a check_html invocation calls is the one the service held
\* when the checker was constructed, whatever other requests did in between
C19_BackendFixedForCheck == BackendAsked => gen.calledModel = gen.ctorModel

\* the check called its backend while no other request had replaced the model
C19_UndisturbedReached ==
    BackendAsked /\ gen.calledModel = gen.ctorModel /\ gen.ctorModel = LayoutModel

\* a step keeps every row, lowers no usage_count, and creates rows with
\* usage_count 1
RowsKept ==
    /\ Len(store') >= Len(store)
    /\ \A k \in 1..Len(store) :
          /\ store'[k].tuple = store[k].tuple
          /\ store'[k].count >= store[k].count
    /\ \A k \in (Len(store) + 1)..Len(store') : store'[k].count = 1

\* the rowids q fetched from the rows: at most FrequentLimit of them, each once,
\* by non-increasing usage_count, and no row left out has a greater usage_count
\* than a row fetched
RankedTop(rows, q) ==
    /\ Len(q) <= FrequentLimit
    /\ \A n \in 1..Len(q) : q[n] \in 1..Len(rows)
    /\ \A n, m \in 1..Len(q) : n < m => q[n] # q[m] /\ rows[q[n]].count >= rows[q[m]].count
    /\ \A k \in 1..Len(rows) :
          (\A n \in 1..Len(q) : q[n] # k) =>
              \A n \in 1..Len(q) : rows[k].count <= rows[q[n]].count

\* C20: a palette row is never deleted, starts with usage_count 1 and its
\* usage_count never decreases; the frequent-palettes query returns at most 6
\* rows by non-increasing usage_count, and no row it leaves out has a strictly
\* greater usage_count than a row it returns
C20_LifecycleAndRanking ==
    [][/\ RowsKept
       /\ (fq.pc = "idle" /\ fq'.pc = "done") => RankedTop(store, fq'.rowids)]_vars

\* the query ran on a table of more rows than the limit, after an upsert
C20_Witness ==
    /\ fq.pc = "done"
    /\ Len(fq.rowids) = FrequentLimit
    /\ fq.scanned > FrequentLimit
    /\ fq.scanned > Len(earlier)

\* a step that invokes check_html does so for the first time and on the first
\* layout; a step that generates a later layout comes after the check and
\* invokes nothing
ChecksFirstLayoutOnly ==
    /\ gen'.checks # gen.checks =>
          gen.checks = 0 /\ gen'.checks = 1 /\ gen.layouts = 1 /\ gen'.layouts = 1
    /\ (gen'.layouts # gen.layouts /\ gen.layouts >= 1) =>
          gen.checks = 1 /\ gen'.checks = 1 /\ gen'.layouts = gen.layouts + 1

\* C21: in a generate-layout request check_html is invoked once, on the first
\* layout and on no other: never twice, not before the first layout, and
\* exactly once in every request that answers 200 or 400 or generates a later
\* layout; the second and third layouts are generated after that check and
\* are not submitted to it, so a success response rests on the verdict about
\* layout_1 alone
C21_CheckedOnceOnFirstLayout ==
    /\ [](/\ gen.checks <= 1
          /\ (gen.status \in {200, 400} \/ gen.layouts > 1) => gen.checks = 1
          /\ gen.status = 200 => gen.layouts = 3 /\ ReportPassed)
    /\ [][ChecksFirstLayoutOnly]_vars

C21_Witness ==
    /\ gen.pc = "done"
    /\ gen.status = 200
    /\ gen.checks = 1
    /\ gen.layouts = 3
    /\ gen.calledModel # NoModel

\* the usage counts of the rows of tuple t, added up
CountOf(rows, t) == TotalCount(rows, t, 1)

\* C22: a generate-layout request commits its palette upsert once, before any
\* layout generation and any compliance check: the tuple's usage count has
\* grown by one for it whether the request then ends in success, in the 400 of
\* a compliance failure or in a 500, and no later step of the request changes
\* the palette table
C22_UpsertOnceBeforeLayouts ==
    /\ [](/\ (gen.layouts >= 1 \/ gen.checks >= 1 \/ gen.status \in {200, 400}) => gen.saved
          /\ (gen.status = 500 /\ gen.error # "database is locked") => gen.saved
          /\ CountOf(store, gen.tuple) =
                CountOf(earlier, gen.tuple) + Cardinality(SavedBy(gen.tuple)))
    /\ [][/\ gen.saved => gen'.saved
          /\ (gen.saved /\ gen' # gen) => store' = store]_vars

\* the request has ended in a 500 after its upsert was committed
C22_Witness ==
    /\ gen.pc = "done"
    /\ gen.status = 500
    /\ gen.saved
    /\ gen.layouts = 1
    /\ CountOf(store, gen.tuple) > CountOf(earlier, gen.tuple)

C22_RejectedAfterUpsert == gen.status = 400 /\ gen.saved

C22_SuccessAfterUpsert == gen.status = 200 /\ gen.saved

\* C23: a service constructed without an API key keeps model None through
\* every analyze_product_image and generate_layout call; generate_layout gives
\* the fallback layout, which has no 'content' key; the generate-layout
\* request never invokes check_html, never answers success, and ends in the
\* 500 response
C23_UnconfiguredAlwaysFails ==
    /\ [](model = NoModel =>
             /\ ~gen.hasContent
             /\ gen.checks = 0
             /\ gen.layouts <= 1
             /\ gen.status \in {0, 500}
             /\ gen.pc = "done" => gen.status = 500)
    /\ [][model = NoModel => model' = NoModel]_vars

\* without a key: the image was analysed, the layout call gave the fallback
\* layout, and the request ended on the missing 'content' key
C23_Witness ==
    /\ model = NoModel
    /\ an.pc = "done"
    /\ gen.pc = "done"
    /\ gen.layouts = 1
    /\ gen.status = 500
    /\ gen.error = "'content'"

====
